---- MODULE Spec2Model ----
(***************************************************************************)
(* Card composition layout engine of cardGenerator (card_generator.py).    *)
(*                                                                         *)
(* The module holds one state machine per part of CardGenerator:           *)
(*   Spec       the batch loop generate_cards_from_spreadsheet and, inside *)
(*              it, the per-record pipeline generate_card                  *)
(*   SpecTitle  _draw_scaled_title                                         *)
(*   SpecWrap   _wrap_text_to_fit                                          *)
(*   SpecDesc   _draw_wrapped_text                                         *)
(*   SpecBorder add_colored_border and _draw_filled_rounded_rectangle      *)
(*   SpecImage  the fill-and-crop path of add_image_to_card                *)
(*   SpecSanitize the sanitizer of the output file name                   *)
(* Every specification assigns all variables; the variables of the parts   *)
(* it does not exercise stay at their initial value.                       *)
(***************************************************************************)
EXTENDS Integers, Sequences, FiniteSets, TLC

(***************************************************************************)
(* Bounds of the model.                                                    *)
(***************************************************************************)
MaxRecords == 2

\* the largest title_max_font_size of the configurations tried
MaxTitleFontSize == 16

\* the longest text wrapped, in characters
MaxTextLen == 6

\* the widest wrap width tried, in pixels
MaxWrapWidth == 5

\* the longest description drawn, in characters
MaxDescLen == 4

\* the largest description_max_font_size of the configurations tried
MaxDescFontSize == 12

\* the widest border_width of the configurations tried
MaxBorderWidth == 5

\* the largest border_corner_radius of the configurations tried
MaxCornerRadius == 8

\* the longest side of the card templates tried, in pixels
MaxCardSide == 13

\* the longest side of the source images tried, in pixels
MaxSourceSide == 12

\* the longest side of the image areas tried, in pixels
MaxTargetSide == 16

\* the longest title sanitized, in characters
MaxTitleLen == 2

(***************************************************************************)
(* Small helpers.                                                          *)
(***************************************************************************)
Min(a, b) == IF a <= b THEN a ELSE b

Max(a, b) == IF a >= b THEN a ELSE b

\* dict.get(key, default)
Get(map, key, default) == IF key \in DOMAIN map THEN map[key] ELSE default

IsPrefix(s, t) == Len(s) <= Len(t) /\ SubSeq(t, 1, Len(s)) = s

Last(s) == s[Len(s)]

(***************************************************************************)
(* Configuration resolved by CardGenerator.__init__.                       *)
(***************************************************************************)
Red == <<255, 0, 0>>

Green == <<0, 255, 0>>

Blue == <<0, 0, 255>>

Yellow == <<255, 255, 0>>

Gray == <<128, 128, 128>>

White == <<255, 255, 255>>

Purple == <<128, 0, 128>>

\* the built-in colours used when the configuration names no card_types
DefaultTypeColors == [t \in {"D", "V", "P", "?"} |->
      CASE t = "D" -> Red [] t = "V" -> Green [] t = "P" -> Blue [] OTHER -> Yellow]

\* a card_types section of config.json: every entry's colour is read as given
ConfiguredTypeColors == [t \in {"D", "?"} |-> IF t = "D" THEN Purple ELSE Blue]

\* the type-colour maps the generator may have been constructed with
TypeColorMaps == {DefaultTypeColors, ConfiguredTypeColors}

\* the type codes of the records: configured codes, a lower-case variant of
\* one, and a code no map configures
TypeCodes == {"D", "?", "d", "Z"}

\* str.upper() on the type codes of the model
Upper(t) == IF t = "d" THEN "D" ELSE t

(***************************************************************************)
(* The image cell of a record, by what the file system holds at its path:  *)
(*   ""           no path (empty or NaN cell)                              *)
(*   "missing"    a path, no file there                                    *)
(*   "unreadable" a file that cannot be opened                             *)
(*   "corrupt"    a file that opens but does not decode                    *)
(*   "ok"         a decodable image                                        *)
(***************************************************************************)
ImageKinds == {"", "missing", "unreadable", "corrupt", "ok"}

VARIABLES
    type_colors,   \* self.type_colors
    nrows,         \* len(df)
    index,         \* the loop variable of df.iterrows(), 0-based
    pc,            \* position in the loop body / in generate_card
    card_data,     \* the record being rendered
    canvas,        \* the canvas of the record being rendered: the layers drawn
    trace,         \* the stages run for the record being rendered, in order
    files,         \* output directory: 1-based card number -> saved canvas
    log,           \* lines printed, as <<card number, kind>>
    raised,        \* card numbers whose loop body ended by an exception
    title_column,  \* the 'title' column of df; <<>> when df has no such column
    output_dir     \* self.output_dir: file name -> card number that wrote it

batchVars == <<type_colors, nrows, index, pc, card_data, canvas, trace, files,
               log, raised, title_column, output_dir>>

VARIABLES
    title_max_font_size,  \* self.title_max_font_size
    title_area,           \* (x1, y1, x2, y2)
    title_bbox,           \* font size -> <<width, height>> of the title's bbox
    title_drawn           \* the draw.text calls made: size and position

titleVars == <<title_max_font_size, title_area, title_bbox, title_drawn>>

VARIABLES
    wrap_text,        \* text, a sequence of characters
    wrap_max_width,   \* max_width
    wrap_font,        \* font, by its size
    wrap_lines,       \* the list returned
    wrap_done         \* whether the function has returned

wrapVars == <<wrap_text, wrap_max_width, wrap_font, wrap_lines, wrap_done>>

VARIABLES
    description_max_font_size,  \* self.description_max_font_size
    description_font_size,      \* self.description_font_size
    desc_text,                  \* text
    desc_area,                  \* (x1, y1, x2, y2)
    desc_result                 \* best_font, the final lines, the draw.text calls

descVars == <<description_max_font_size, description_font_size, desc_text,
              desc_area, desc_result>>

VARIABLES
    border_width,          \* self.border_width
    border_corner_radius,  \* card_settings["border_corner_radius"]
    card_size,             \* bordered_image.size
    border_mask            \* the drawing calls made on the mask, in order

borderVars == <<border_width, border_corner_radius, card_size, border_mask>>

VARIABLES
    img_size,     \* card_img.size of the source image
    image_area,   \* (x1, y1, x2, y2)
    img_pasted,   \* the result.paste calls made
    img_done      \* whether add_image_to_card has returned

imageVars == <<img_size, image_area, img_pasted, img_done>>

VARIABLES
    san_title,    \* card_data['title']
    san_name      \* the sanitized titles computed

sanitizeVars == <<san_title, san_name>>

vars == <<batchVars, titleVars, wrapVars, descVars, borderVars, imageVars,
          sanitizeVars>>

NoRecord == [title |-> <<>>, type |-> "?", image |-> ""]

Layer(op, color, text) == [op |-> op, color |-> color, text |-> text]

(***************************************************************************)
(* generate_cards_from_spreadsheet: the except clause of the loop body.    *)
(* The exception is printed and the loop goes on with the next row.        *)
(***************************************************************************)
\* variant: the try statement wraps the whole loop, so an exception ends it
OnExceptionAbortsBatch ==
    /\ raised' = raised \cup {index + 1}
    /\ log' = log \cup {<<index + 1, "error">>}
    /\ index' = nrows
    /\ pc' = "loop"
    /\ card_data' = NoRecord
    /\ canvas' = <<>>
    /\ trace' = <<>>
    /\ UNCHANGED <<type_colors, nrows, files, title_column, output_dir>>

OnException ==
    /\ raised' = raised \cup {index + 1}
    /\ log' = log \cup {<<index + 1, "error">>}
    /\ index' = index + 1
    /\ pc' = "loop"
    /\ card_data' = NoRecord
    /\ canvas' = <<>>
    /\ trace' = <<>>
    /\ UNCHANGED <<type_colors, nrows, files, title_column, output_dir>>

(***************************************************************************)
(* generate_card: the order of the stages.  StageAfter(s) is the statement *)
(* that follows stage s in generate_card (and, for the two text stages, in *)
(* add_text_to_card).                                                      *)
(***************************************************************************)
\* variant: the border is composited before the text is drawn
StageAfterBorderFirst(s) ==
    CASE s = "load_template" -> "add_image"
      [] s = "add_image" -> "add_border"
      [] s = "add_border" -> "draw_title"
      [] s = "draw_title" -> "draw_description"
      [] s = "draw_description" -> "save"

StageAfter(s) ==
    CASE s = "load_template" -> "add_image"
      [] s = "add_image" -> "draw_title"
      [] s = "draw_title" -> "draw_description"
      [] s = "draw_description" -> "add_border"
      [] s = "add_border" -> "save"

\* a stage that returned: its canvas goes to the next stage
Advance(stage, newCanvas) ==
    /\ canvas' = newCanvas
    /\ trace' = Append(trace, stage)
    /\ pc' = StageAfter(stage)
    /\ UNCHANGED <<type_colors, nrows, index, card_data, files, raised,
                   title_column, output_dir>>

(***************************************************************************)
(* The file name of a card.  A string is the sequence of its characters.   *)
(***************************************************************************)
Digits == <<"0", "1", "2", "3", "4", "5", "6", "7", "8", "9">>

\* str(n) for n >= 0, as the f-string formats index + 1
RECURSIVE Str(_)
Str(n) ==
    IF n < 10 THEN <<Digits[n + 1]>>
    ELSE Str(n \div 10) \o <<Digits[(n % 10) + 1]>>

\* variant: str.replace(old, new, 1), only the first occurrence is replaced
ReplaceFirst(s, old, new) ==
    CHOOSE r \in {[i \in 1..Len(t) |->
                     IF t[i] = old /\ (\A j \in 1..(i - 1) : t[j] # old)
                     THEN new ELSE t[i]] : t \in {s}} : TRUE

\* str.replace(old, new) for one-character old and new: every occurrence
\* (t is the string s, evaluated once)
Replace(s, old, new) ==
    CHOOSE r \in {[i \in 1..Len(t) |-> IF t[i] = old THEN new ELSE t[i]] :
                     t \in {s}} : TRUE

\* the chain of replace calls that makes safe_title
safe_title(title) ==
    LET s1 == Replace(title, "?", "_")
        s2 == Replace(s1, ":", "_")
        s3 == Replace(s2, "/", "_")
        s4 == Replace(s3, "\\", "_")
        s5 == Replace(s4, "*", "_")
        s6 == Replace(s5, "\"", "_")
        s7 == Replace(s6, "<", "_")
        s8 == Replace(s7, ">", "_")
    IN  Replace(s8, "|", "_")

\* the sanitized title as it stands in the file name: safe_title with its
\* spaces replaced
sanitize(title) == Replace(safe_title(title), " ", "_")

\* variant: the file name is made of the title alone
output_filename_without_index(i, title) ==
    <<"c", "a", "r", "d", "_">> \o sanitize(title) \o <<".", "p", "n", "g">>

\* f"card_{index + 1}_{safe_title.replace(' ', '_')}.png"
output_filename(i, title) ==
    <<"c", "a", "r", "d", "_">> \o Str(i + 1) \o <<"_">> \o sanitize(title)
        \o <<".", "p", "n", "g">>

(***************************************************************************)
(* The loop header and the construction of card_data.                      *)
(***************************************************************************)
\* the 'title' columns of the data frames tried: the titles of the rows,
\* repeated in turn when df has more rows; <<>> is a df without the column
TitleColumns ==
    { <<>>,
      << <<"H", "e", "r", "o">>, <<"A", "/", "B", "?">> >>,
      << <<"a", " ", "b">>, <<"a", " ", "b">> >>,
      << <<"A", "/", "B", "?">>, <<"A", "_", "B", "_">> >> }

\* str(row.get('title', f'Card {index + 1}'))
RowTitle(column, i) ==
    IF column = <<>> THEN <<"C", "a", "r", "d", " ">> \o Str(i + 1)
    ELSE column[(i % Len(column)) + 1]

ReadRow ==
    /\ pc = "loop"
    /\ index < nrows
    /\ \E t \in TypeCodes, img \in ImageKinds :
          card_data' = [title |-> RowTitle(title_column, index),
                        type |-> t, image |-> img]
    /\ pc' = "load_template"
    /\ canvas' = <<>>
    /\ trace' = <<>>
    /\ UNCHANGED <<type_colors, nrows, index, files, log, raised, title_column,
                   output_dir>>

\* variant: the template is opened once and every card is drawn on that
\* one image
LoadTemplateShared ==
    /\ pc = "load_template"
    /\ \/ /\ Advance("load_template",
                     IF index \in DOMAIN files THEN files[index]
                     ELSE <<Layer("template", <<>>, "")>>)
          /\ UNCHANGED log
       \/ OnException

\* template = Image.open(self.template_path)
LoadTemplate ==
    /\ pc = "load_template"
    /\ \/ /\ Advance("load_template", <<Layer("template", <<>>, "")>>)
          /\ UNCHANGED log
       \/ OnException

(***************************************************************************)
(* add_image_to_card and _create_fallback_image.                           *)
(***************************************************************************)
\* the colour _create_fallback_image fills the image area with
FallbackColor(card_type) ==
    Get(type_colors, card_type, Get(type_colors, "?", Gray))

\* the layers _create_fallback_image draws: the fill, then the type letter
create_fallback_image(cv, card_type) ==
    cv \o <<Layer("fallback_fill", FallbackColor(card_type), ""),
            Layer("fallback_letter", White, card_type)>>

AddImage ==
    /\ pc = "add_image"
    /\ LET path == card_data.image
           n == index + 1
       IN  IF path = "" \/ path = "missing"
           THEN \* not card_image_path or not Path(card_image_path).exists()
                \/ /\ Advance("add_image",
                              create_fallback_image(canvas, card_data.type))
                   /\ log' = IF path = "" THEN log
                             ELSE log \cup {<<n, "image_not_found">>}
                \/ OnException
           ELSE IF path = "ok"
           THEN \* open, resize, crop, paste
                /\ Advance("add_image", Append(canvas, Layer("image", <<>>, "")))
                /\ UNCHANGED log
           ELSE \* Image.open or a later call raised: the except clause prints
                \* the error and the function returns the copy of the template
                /\ Advance("add_image", canvas)
                /\ log' = log \cup {<<n, "image_error">>}

(***************************************************************************)
(* add_text_to_card: the title, then the description.                      *)
(***************************************************************************)
DrawTitle ==
    /\ pc = "draw_title"
    /\ \/ /\ Advance("draw_title",
                     Append(canvas, Layer("title", <<>>, card_data.title)))
          /\ UNCHANGED log
       \/ OnException

DrawDescription ==
    /\ pc = "draw_description"
    /\ \/ /\ Advance("draw_description",
                     Append(canvas, Layer("description", <<>>, "")))
          /\ UNCHANGED log
       \/ OnException

(***************************************************************************)
(* add_colored_border: the colour of the frame.                            *)
(***************************************************************************)
BorderColor(card_type) == Get(type_colors, Upper(card_type), Gray)

AddBorder ==
    /\ pc = "add_border"
    /\ \/ /\ Advance("add_border",
                     Append(canvas, Layer("border", BorderColor(card_data.type), "")))
          /\ UNCHANGED log
       \/ OnException

(***************************************************************************)
(* card_image.save(output_path, 'PNG') and the "Generated" line.           *)
(***************************************************************************)
Save ==
    /\ pc = "save"
    /\ \/ /\ files' = [k \in DOMAIN files \cup {index + 1} |->
                          IF k = index + 1 THEN canvas ELSE files[k]]
          /\ LET output_path == output_filename(index, card_data.title)
             IN  output_dir' = [name \in DOMAIN output_dir \cup {output_path} |->
                                   IF name = output_path THEN index + 1
                                   ELSE output_dir[name]]
          /\ log' = log \cup {<<index + 1, "generated">>}
          /\ index' = index + 1
          /\ pc' = "loop"
          /\ card_data' = NoRecord
          /\ canvas' = <<>>
          /\ trace' = <<>>
          /\ UNCHANGED <<type_colors, nrows, raised, title_column>>
       \/ OnException

\* the loop is exhausted: "Card generation complete!"
Finish ==
    /\ pc = "loop"
    /\ index >= nrows
    /\ pc' = "done"
    /\ UNCHANGED <<type_colors, nrows, index, card_data, canvas, trace, files,
                   log, raised, title_column, output_dir>>

BatchInit ==
    /\ type_colors \in TypeColorMaps
    /\ nrows \in 0..MaxRecords
    /\ index = 0
    /\ pc = "loop"
    /\ card_data = NoRecord
    /\ canvas = <<>>
    /\ trace = <<>>
    /\ files = <<>>
    /\ log = {}
    /\ raised = {}
    /\ title_column \in TitleColumns
    /\ output_dir = <<>>

\* the batch loop at rest, for the specifications of the other parts
BatchIdle ==
    /\ type_colors = DefaultTypeColors
    /\ nrows = 0
    /\ index = 0
    /\ pc = "done"
    /\ card_data = NoRecord
    /\ canvas = <<>>
    /\ trace = <<>>
    /\ files = <<>>
    /\ log = {}
    /\ raised = {}
    /\ title_column = <<>>
    /\ output_dir = <<>>

(***************************************************************************)
(* _draw_scaled_title.  A font is its size (_load_font(size)); the text    *)
(* measurement draw.textbbox is the function title_bbox of the font size.  *)
(***************************************************************************)
\* min_font_size of _draw_scaled_title
TitleMinFontSize == 12

\* range(start, stop, step) for a negative step, as the sequence it yields
RECURSIVE RangeDown(_, _, _)
RangeDown(start, stop, step) ==
    IF start <= stop THEN <<>>
    ELSE <<start>> \o RangeDown(start + step, stop, step)

\* variant: the comparison of the fit test is strict
TitleFitsStrict(text_width, text_height, max_width, max_height) ==
    text_width < max_width /\ text_height < max_height

\* if text_width <= max_width and text_height <= max_height
TitleFits(text_width, text_height, max_width, max_height) ==
    text_width <= max_width /\ text_height <= max_height

\* the for loop over the candidate sizes: the first that fits, or 0 (None)
RECURSIVE TitleSearch(_, _, _, _)
TitleSearch(sizes, bbox, max_width, max_height) ==
    IF sizes = <<>> THEN 0
    ELSE LET font_size == Head(sizes)
             text_width == bbox[font_size][1]
             text_height == bbox[font_size][2]
         IN  IF TitleFits(text_width, text_height, max_width, max_height)
             THEN font_size
             ELSE TitleSearch(Tail(sizes), bbox, max_width, max_height)

\* the whole function: the search, the fallback to the floor, the centring;
\* the result is the draw.text call
draw_scaled_title(area, max_font_size, bbox) ==
    LET x1 == area[1]
        y1 == area[2]
        max_width == area[3] - area[1]
        max_height == area[4] - area[2]
        found == TitleSearch(RangeDown(max_font_size, TitleMinFontSize - 1, -2),
                             bbox, max_width, max_height)
        best_font == IF found = 0 THEN TitleMinFontSize ELSE found
        text_width == bbox[best_font][1]
        text_height == bbox[best_font][2]
    IN  [size |-> best_font,
         x |-> x1 + ((max_width - text_width) \div 2),
         y |-> y1 + ((max_height - text_height) \div 2)]

\* the title rects tried
TitleAreas == {<<1, 1, 3, 3>>, <<0, 2, 3, 4>>}

\* the bounding boxes a title may measure at a size
TitleBoxes == {2, 3} \X {2, 3}

TitleInit ==
    /\ title_max_font_size \in (TitleMinFontSize - 2)..MaxTitleFontSize
    /\ title_area \in TitleAreas
    /\ title_bbox \in [TitleMinFontSize..Max(title_max_font_size, TitleMinFontSize)
                          -> TitleBoxes]
    /\ title_drawn = <<>>

TitleIdle ==
    /\ title_max_font_size = TitleMinFontSize
    /\ title_area = <<1, 1, 3, 3>>
    /\ title_bbox = [s \in {TitleMinFontSize} |-> <<2, 2>>]
    /\ title_drawn = <<>>

DrawScaledTitle ==
    /\ title_drawn = <<>>
    /\ title_drawn' = <<draw_scaled_title(title_area, title_max_font_size, title_bbox)>>
    /\ UNCHANGED <<title_max_font_size, title_area, title_bbox>>

(***************************************************************************)
(* Text and its measurement.  A string is a sequence of characters; the    *)
(* width draw.textbbox reports is the sum of the advances of its glyphs,   *)
(* which grow with the font size.                                          *)
(***************************************************************************)
Chars == {"i", "W", " "}

Strings(n) == UNION {[1..k -> Chars] : k \in 0..n}

GlyphUnits(ch) == IF ch = "W" THEN 2 ELSE 1

RECURSIVE TextWidth(_, _)
TextWidth(str, font) ==
    IF str = <<>> THEN 0
    ELSE GlyphUnits(Head(str)) * (font \div 4) + TextWidth(Tail(str), font)

\* str.split(): the maximal runs of non-whitespace characters
RECURSIVE SplitFrom(_, _)
SplitFrom(str, word) ==
    IF str = <<>> THEN (IF word = <<>> THEN <<>> ELSE <<word>>)
    ELSE IF Head(str) = " "
         THEN (IF word = <<>> THEN <<>> ELSE <<word>>) \o SplitFrom(Tail(str), <<>>)
         ELSE SplitFrom(Tail(str), Append(word, Head(str)))

Split(str) == SplitFrom(str, <<>>)

(***************************************************************************)
(* _wrap_text_to_fit                                                       *)
(***************************************************************************)
\* variant: the width of the word alone is compared, not of the line with it
WrapFitsWordOnly(test_line, word, max_width, font) ==
    TextWidth(word, font) <= max_width

\* variant: a line that is exactly max_width wide does not fit
WrapFitsStrict(test_line, word, max_width, font) ==
    TextWidth(test_line, font) < max_width

\* bbox of test_line; text_width <= max_width
WrapFits(test_line, word, max_width, font) ==
    TextWidth(test_line, font) <= max_width

\* the for loop over the words and the flush of the last line
RECURSIVE WrapLoop(_, _, _, _, _)
WrapLoop(words, lines, current_line, max_width, font) ==
    IF words = <<>>
    THEN (IF current_line # <<>> THEN Append(lines, current_line) ELSE lines)
    ELSE LET word == Head(words)
             test_line == current_line
                            \o (IF current_line # <<>> THEN <<" ">> ELSE <<>>)
                            \o word
         IN  IF WrapFits(test_line, word, max_width, font)
             THEN WrapLoop(Tail(words), lines, test_line, max_width, font)
             ELSE WrapLoop(Tail(words),
                           IF current_line # <<>> THEN Append(lines, current_line)
                                                  ELSE lines,
                           word, max_width, font)

wrap_text_to_fit(text, max_width, font) ==
    WrapLoop(Split(text), <<>>, <<>>, max_width, font)

\* the font sizes the wrap is tried with
WrapFonts == {4, 8}

WrapInit ==
    /\ wrap_text \in Strings(MaxTextLen)
    /\ wrap_max_width \in 0..MaxWrapWidth
    /\ wrap_font \in WrapFonts
    /\ wrap_lines = <<>>
    /\ wrap_done = FALSE

WrapIdle ==
    /\ wrap_text = <<>>
    /\ wrap_max_width = 0
    /\ wrap_font = 4
    /\ wrap_lines = <<>>
    /\ wrap_done = TRUE

WrapTextToFit ==
    /\ ~wrap_done
    /\ wrap_lines' = wrap_text_to_fit(wrap_text, wrap_max_width, wrap_font)
    /\ wrap_done' = TRUE
    /\ UNCHANGED <<wrap_text, wrap_max_width, wrap_font>>

(***************************************************************************)
(* _draw_wrapped_text                                                      *)
(***************************************************************************)
\* min_font_size of _draw_wrapped_text
DescMinFontSize == 8

\* the spacing added to the font size to make the line height
LineSpacing == 4

\* the for loop over the candidate sizes: the first whose wrapped text is
\* not taller than the area, or 0 when the loop ends without a break
RECURSIVE DescSearch(_, _, _, _)
DescSearch(sizes, text, max_width, max_height) ==
    IF sizes = <<>> THEN 0
    ELSE LET font_size == Head(sizes)
             lines == wrap_text_to_fit(text, max_width, font_size)
             line_height == font_size + LineSpacing
             total_height == Len(lines) * line_height
         IN  IF total_height <= max_height
             THEN font_size
             ELSE DescSearch(Tail(sizes), text, max_width, max_height)

\* variant: a line is drawn whenever its top is inside the area
DrawLinesTopOnly(lines, x1, y_offset, y2, font) ==
    LET n == IF y_offset > y2 THEN 0
             ELSE Min(Len(lines), ((y2 - y_offset) \div (font + LineSpacing)) + 1)
    IN  [k \in 1..n |-> [x |-> x1, y |-> y_offset + (k - 1) * (font + LineSpacing),
                         text |-> lines[k], font |-> font]]

\* the drawing loop: the draw.text calls made before the break
RECURSIVE DrawLines(_, _, _, _, _)
DrawLines(lines, x1, y_offset, y2, font) ==
    LET line_height == font + LineSpacing
    IN  IF lines = <<>> \/ y_offset + line_height > y2
        THEN <<>>
        ELSE <<[x |-> x1, y |-> y_offset, text |-> Head(lines), font |-> font]>>
               \o DrawLines(Tail(lines), x1, y_offset + line_height, y2, font)

\* the whole function; font is self.description_font, the font of size
\* description_font_size loaded by __init__
draw_wrapped_text(text, area, font, max_font_size) ==
    LET x1 == area[1]
        y1 == area[2]
        y2 == area[4]
        max_width == area[3] - area[1]
        max_height == area[4] - area[2]
        found == DescSearch(RangeDown(max_font_size, DescMinFontSize - 1, -2),
                            text, max_width, max_height)
        best_font == IF found = 0 THEN font ELSE found
        lines == wrap_text_to_fit(text, max_width, best_font)
    IN  [best_font |-> best_font,
         lines |-> lines,
         drawn |-> DrawLines(lines, x1, y1, y2, best_font)]

\* the description rects tried
DescAreas == {<<1, 1, 1 + w, 1 + h>> : w \in {4, 6, 12}, h \in {10, 14, 20, 26}}

\* the values of description_font_size tried; 16 is the default
DescFontSizes == {10, 16}

DescInit ==
    /\ description_max_font_size \in DescMinFontSize..MaxDescFontSize
    /\ description_font_size \in DescFontSizes
    /\ desc_text \in Strings(MaxDescLen)
    /\ desc_area \in DescAreas
    /\ desc_result = <<>>

DescIdle ==
    /\ description_max_font_size = DescMinFontSize
    /\ description_font_size = 16
    /\ desc_text = <<>>
    /\ desc_area = <<1, 1, 5, 11>>
    /\ desc_result = <<>>

DrawWrappedText ==
    /\ desc_result = <<>>
    /\ desc_result' = <<draw_wrapped_text(desc_text, desc_area,
                                          description_font_size,
                                          description_max_font_size)>>
    /\ UNCHANGED <<description_max_font_size, description_font_size, desc_text,
                   desc_area>>

(***************************************************************************)
(* add_colored_border: the mask.  A drawing call is its shape, its box     *)
(* [x1, y1, x2, y2] and its fill value.                                    *)
(***************************************************************************)
Prim(shape, x1, y1, x2, y2, fill) ==
    [shape |-> shape, box |-> <<x1, y1, x2, y2>>, fill |-> fill]

\* _draw_filled_rounded_rectangle: the calls it makes on draw
draw_filled_rounded_rectangle(x1, y1, x2, y2, radius, fill_value) ==
    IF radius <= 0 \/ x2 <= x1 \/ y2 <= y1
    THEN (IF x2 > x1 /\ y2 > y1
          THEN <<Prim("rectangle", x1, y1, x2, y2, fill_value)>>
          ELSE <<>>)
    ELSE LET max_radius == Min((x2 - x1) \div 2, (y2 - y1) \div 2)
             r == Min(radius, max_radius)
         IN  IF r <= 0
             THEN <<Prim("rectangle", x1, y1, x2, y2, fill_value)>>
             ELSE <<Prim("rectangle", x1 + r, y1, x2 - r, y2, fill_value),
                    Prim("rectangle", x1, y1 + r, x2, y2 - r, fill_value),
                    Prim("ellipse", x1, y1, x1 + r * 2, y1 + r * 2, fill_value),
                    Prim("ellipse", x2 - r * 2, y1, x2, y1 + r * 2, fill_value),
                    Prim("ellipse", x1, y2 - r * 2, x1 + r * 2, y2, fill_value),
                    Prim("ellipse", x2 - r * 2, y2 - r * 2, x2, y2, fill_value)>>

\* variant: the radius is clamped to the border width itself
ClampCornerRadiusToWidth(corner_radius, bw) == Min(corner_radius, bw)

\* corner_radius = min(corner_radius, self.border_width - 2)
ClampCornerRadius(corner_radius, bw) == Min(corner_radius, bw - 2)

\* the mask of add_colored_border: the full rectangle, then the cut-out
BorderMask(size, bw, requested_radius) ==
    LET width == size[1]
        height == size[2]
        corner_radius == ClampCornerRadius(requested_radius, bw)
        inner_x1 == bw
        inner_y1 == bw
        inner_x2 == width - 1 - bw
        inner_y2 == height - 1 - bw
    IN  <<Prim("rectangle", 0, 0, width - 1, height - 1, 255)>>
          \o (IF inner_x2 > inner_x1 /\ inner_y2 > inner_y1
              THEN draw_filled_rounded_rectangle(inner_x1, inner_y1, inner_x2,
                                                 inner_y2, corner_radius, 0)
              ELSE <<>>)

\* the pixels a drawing call sets.  ImageDraw.rectangle fills its box, both
\* corners included; ImageDraw.ellipse fills the ellipse inscribed in its
\* box, taken here as the pixels whose centre is inside or on that ellipse.
\* Pixels outside the image are clipped by the caller's range of x and y.
Covers(prim, x, y) ==
    LET x1 == prim.box[1]
        y1 == prim.box[2]
        x2 == prim.box[3]
        y2 == prim.box[4]
        w == x2 - x1
        h == y2 - y1
        dx == 2 * x - x1 - x2
        dy == 2 * y - y1 - y2
    IN  /\ x1 <= x /\ x <= x2
        /\ y1 <= y /\ y <= y2
        /\ prim.shape = "ellipse" => dx * dx * h * h + dy * dy * w * w <= w * w * h * h

\* the value of the mask at a pixel: Image.new('L', size, 0), then the
\* drawing calls in order, a later call painting over an earlier one
MaskAt(mask, x, y) ==
    LET hits == {i \in 1..Len(mask) : Covers(mask[i], x, y)}
    IN  IF hits = {} THEN 0
        ELSE mask[CHOOSE i \in hits : \A j \in hits : j <= i].fill

\* variant: the mask is applied inverted
CompositeInverted(alpha) == IF alpha = 0 THEN "border" ELSE "card"

\* border_img.putalpha(mask); Image.alpha_composite(card, border_img): where
\* the alpha is 255 the pixel is the border colour, where it is 0 the pixel
\* of the input card ("card") is kept
Composite(alpha) == IF alpha = 255 THEN "border" ELSE "card"

\* the pixel of the image add_colored_border returns
BorderedPixel(x, y) == Composite(MaskAt(border_mask, x, y))

\* the sides of the card templates tried
CardSides == 6..MaxCardSide

BorderInit ==
    /\ border_width \in -1..MaxBorderWidth
    /\ border_corner_radius \in -2..MaxCornerRadius
    /\ card_size \in CardSides \X CardSides
    /\ border_mask = <<>>

BorderIdle ==
    /\ border_width = 0
    /\ border_corner_radius = 0
    /\ card_size = <<6, 6>>
    /\ border_mask = <<>>

AddColoredBorder ==
    /\ border_mask = <<>>
    /\ border_mask' = BorderMask(card_size, border_width, border_corner_radius)
    /\ UNCHANGED <<border_width, border_corner_radius, card_size>>

(***************************************************************************)
(* Python floats.  target_width / img_width, max and img_width * scale are *)
(* IEEE 754 binary64 operations, each rounded to nearest, ties to even.    *)
(* A positive double is [m, e]: its 53-bit significand m, held as the four *)
(* limbs <<h, l2, l3, l4>> (h of 11 bits, 2^10 <= h < 2^11, the others of  *)
(* 14 bits), and the weight 2^e of its last bit: the value is              *)
(*     (h * 2^42 + l2 * 2^28 + l3 * 2^14 + l4) * 2^e.                      *)
(* The operands are image and rect sides, below 2^10.                      *)
(***************************************************************************)
Limb == 16384

\* significand + 1; a carry out of the top limb renormalises
IncrementDouble(x) ==
    LET s4 == x.m[4] + 1
        s3 == x.m[3] + (s4 \div Limb)
        s2 == x.m[2] + (s3 \div Limb)
        h == x.m[1] + (s2 \div Limb)
    IN  IF h = 2048
        THEN [m |-> <<1024, 0, 0, 0>>, e |-> x.e + 1]
        ELSE [m |-> <<h, s2 % Limb, s3 % Limb, s4 % Limb>>, e |-> x.e]

\* round to nearest, ties to even: x is the exact value truncated to 53
\* bits, rest / unit (in [0, 1)) the part of a last bit that was cut off
RoundNearestEven(x, rest, unit) ==
    IF 2 * rest > unit \/ (2 * rest = unit /\ x.m[4] % 2 = 1)
    THEN IncrementDouble(x)
    ELSE x

\* a / b for positive ints: long division, limb by limb
FDiv(a, b) ==
    LET j == CHOOSE k \in 0..21 : 1024 * b <= a * 2^k /\ a * 2^k < 2048 * b
        t == a * 2^j
        h == t \div b
        r1 == t % b
        l2 == (r1 * Limb) \div b
        r2 == (r1 * Limb) % b
        l3 == (r2 * Limb) \div b
        r3 == (r2 * Limb) % b
        l4 == (r3 * Limb) \div b
        r4 == (r3 * Limb) % b
    IN  RoundNearestEven([m |-> <<h, l2, l3, l4>>, e |-> -(j + 42)], r4, b)

\* n * x for a positive int n and a double x: the exact product, then the
\* rounding to 53 bits
FMulInt(n, x) ==
    LET p4 == x.m[4] * n
        p3 == x.m[3] * n + (p4 \div Limb)
        p2 == x.m[2] * n + (p3 \div Limb)
        top == x.m[1] * n + (p2 \div Limb)
        o2 == p2 % Limb
        o3 == p3 % Limb
        o4 == p4 % Limb
        \* the product has d bits more than 53
        d == CHOOSE k \in 0..11 : 1024 * 2^k <= top /\ top < 2048 * 2^k
        lo == 2^d
        hi == Limb \div lo
    IN  RoundNearestEven(
            [m |-> <<top \div lo,
                     (top % lo) * hi + (o2 \div lo),
                     (o2 % lo) * hi + (o3 \div lo),
                     (o3 % lo) * hi + (o4 \div lo)>>,
             e |-> x.e + d],
            o4 % lo, lo)

FLess(x, y) ==
    \/ x.e < y.e
    \/ /\ x.e = y.e
       /\ \E i \in 1..4 : /\ x.m[i] < y.m[i]
                          /\ \A k \in 1..(i - 1) : x.m[k] = y.m[k]

\* max(x, y): the first of the largest
FMax(x, y) == IF FLess(x, y) THEN y ELSE x

\* int(x): truncation, for x < 2^25
FTrunc(x) ==
    LET s == -x.e
    IN  IF s >= 53 THEN 0
        ELSE IF s >= 42 THEN x.m[1] \div 2^(s - 42)
        ELSE (x.m[1] * Limb + x.m[2]) \div 2^(s - 28)

(***************************************************************************)
(* add_image_to_card: the try block, for an image that loads.              *)
(***************************************************************************)
\* int(img_side * scale), scale the larger of the two ratios
ResizedSide(img_side, img_width, img_height, target_width, target_height) ==
    LET scale_x == FDiv(target_width, img_width)
        scale_y == FDiv(target_height, img_height)
        scale == FMax(scale_x, scale_y)
    IN  FTrunc(FMulInt(img_side, scale))

\* the paste call: where, the size of the raster pasted, and the part of it
\* that holds pixels of the resized image (a crop box that reaches outside
\* the image yields empty pixels there); no call when resize raises
FillAndCrop(size, area) ==
    LET x1 == area[1]
        y1 == area[2]
        target_width == area[3] - area[1]
        target_height == area[4] - area[2]
        img_width == size[1]
        img_height == size[2]
        new_width == ResizedSide(img_width, img_width, img_height,
                                 target_width, target_height)
        new_height == ResizedSide(img_height, img_width, img_height,
                                  target_width, target_height)
        crop_x == (new_width - target_width) \div 2
        crop_y == (new_height - target_height) \div 2
    IN  IF new_width <= 0 \/ new_height <= 0
        THEN <<>>
        ELSE IF new_width > target_width \/ new_height > target_height
        THEN <<[at |-> <<x1, y1>>,
                size |-> <<target_width, target_height>>,
                filled |-> <<Max(0, -crop_x), Max(0, -crop_y),
                             Min(target_width, new_width - crop_x),
                             Min(target_height, new_height - crop_y)>>]>>
        ELSE <<[at |-> <<x1, y1>>,
                size |-> <<new_width, new_height>>,
                filled |-> <<0, 0, new_width, new_height>>]>>

ImageInit ==
    /\ img_size \in (1..MaxSourceSide) \X (1..MaxSourceSide)
    /\ image_area \in {<<2, 3, 2 + w, 3 + h>> :
                          w \in 1..MaxTargetSide, h \in 1..MaxTargetSide}
    /\ img_pasted = <<>>
    /\ img_done = FALSE

ImageIdle ==
    /\ img_size = <<1, 1>>
    /\ image_area = <<2, 3, 3, 4>>
    /\ img_pasted = <<>>
    /\ img_done = TRUE

AddImageToCard ==
    /\ ~img_done
    /\ img_pasted' = FillAndCrop(img_size, image_area)
    /\ img_done' = TRUE
    /\ UNCHANGED <<img_size, image_area>>

(***************************************************************************)
(* The sanitizer of the file name, on its own: safe_title and the          *)
(* replacement of the spaces.                                              *)
(***************************************************************************)
\* the characters of the titles sanitized: the ten the code replaces, the
\* underscore and a letter
TitleChars == {"?", ":", "/", "\\", "*", "\"", "<", ">", "|", " ", "_", "a"}

SanitizeInit ==
    /\ san_title \in UNION {[1..k -> TitleChars] : k \in 0..MaxTitleLen}
    /\ san_name = <<>>

SanitizeIdle ==
    /\ san_title = <<>>
    /\ san_name = <<<<>>>>

SanitizeTitle ==
    /\ san_name = <<>>
    /\ san_name' = <<sanitize(san_title)>>
    /\ UNCHANGED san_title

Init ==
    /\ BatchInit /\ TitleIdle /\ WrapIdle /\ DescIdle /\ BorderIdle /\ ImageIdle
    /\ SanitizeIdle

Next ==
    \/ /\ ReadRow
       /\ UNCHANGED <<titleVars, wrapVars, descVars, borderVars, imageVars,
                      sanitizeVars>>
    \/ /\ LoadTemplate
       /\ UNCHANGED <<titleVars, wrapVars, descVars, borderVars, imageVars,
                      sanitizeVars>>
    \/ /\ AddImage
       /\ UNCHANGED <<titleVars, wrapVars, descVars, borderVars, imageVars,
                      sanitizeVars>>
    \/ /\ DrawTitle
       /\ UNCHANGED <<titleVars, wrapVars, descVars, borderVars, imageVars,
                      sanitizeVars>>
    \/ /\ DrawDescription
       /\ UNCHANGED <<titleVars, wrapVars, descVars, borderVars, imageVars,
                      sanitizeVars>>
    \/ /\ AddBorder
       /\ UNCHANGED <<titleVars, wrapVars, descVars, borderVars, imageVars,
                      sanitizeVars>>
    \/ /\ Save
       /\ UNCHANGED <<titleVars, wrapVars, descVars, borderVars, imageVars,
                      sanitizeVars>>
    \/ /\ Finish
       /\ UNCHANGED <<titleVars, wrapVars, descVars, borderVars, imageVars,
                      sanitizeVars>>

Spec == Init /\ [][Next]_vars

TitleNext ==
    /\ DrawScaledTitle
    /\ UNCHANGED <<batchVars, wrapVars, descVars, borderVars, imageVars,
                   sanitizeVars>>

InitTitle ==
    /\ BatchIdle /\ TitleInit /\ WrapIdle /\ DescIdle /\ BorderIdle /\ ImageIdle
    /\ SanitizeIdle

SpecTitle == InitTitle /\ [][TitleNext]_vars

WrapNext ==
    /\ WrapTextToFit
    /\ UNCHANGED <<batchVars, titleVars, descVars, borderVars, imageVars,
                   sanitizeVars>>

InitWrap ==
    /\ BatchIdle /\ TitleIdle /\ WrapInit /\ DescIdle /\ BorderIdle /\ ImageIdle
    /\ SanitizeIdle

SpecWrap == InitWrap /\ [][WrapNext]_vars

DescNext ==
    /\ DrawWrappedText
    /\ UNCHANGED <<batchVars, titleVars, wrapVars, borderVars, imageVars,
                   sanitizeVars>>

InitDesc ==
    /\ BatchIdle /\ TitleIdle /\ WrapIdle /\ DescInit /\ BorderIdle /\ ImageIdle
    /\ SanitizeIdle

SpecDesc == InitDesc /\ [][DescNext]_vars

BorderNext ==
    /\ AddColoredBorder
    /\ UNCHANGED <<batchVars, titleVars, wrapVars, descVars, imageVars,
                   sanitizeVars>>

InitBorder ==
    /\ BatchIdle /\ TitleIdle /\ WrapIdle /\ DescIdle /\ BorderInit /\ ImageIdle
    /\ SanitizeIdle

SpecBorder == InitBorder /\ [][BorderNext]_vars

ImageNext ==
    /\ AddImageToCard
    /\ UNCHANGED <<batchVars, titleVars, wrapVars, descVars, borderVars,
                   sanitizeVars>>

InitImage ==
    /\ BatchIdle /\ TitleIdle /\ WrapIdle /\ DescIdle /\ BorderIdle /\ ImageInit
    /\ SanitizeIdle

SpecImage == InitImage /\ [][ImageNext]_vars

SanitizeNext ==
    /\ SanitizeTitle
    /\ UNCHANGED <<batchVars, titleVars, wrapVars, descVars, borderVars,
                   imageVars>>

InitSanitize ==
    /\ BatchIdle /\ TitleIdle /\ WrapIdle /\ DescIdle /\ BorderIdle /\ ImageIdle
    /\ SanitizeInit

SpecSanitize == InitSanitize /\ [][SanitizeNext]_vars


(***************************************************************************)
(* Fair execution: the loop is sequential code, it keeps running while a   *)
(* statement remains.                                                      *)
(***************************************************************************)
FairSpec == Spec /\ WF_vars(Next)

(***************************************************************************)
(* Properties of the per-record pipeline and of the batch loop.            *)
(***************************************************************************)
StageOrder ==
    <<"load_template", "add_image", "draw_title", "draw_description", "add_border">>

\* the position of a layer in the order the stages draw
Rank(op) ==
    CASE op = "template" -> 0
      [] op \in {"image", "fallback_fill", "fallback_letter"} -> 1
      [] op = "title" -> 2
      [] op = "description" -> 3
      [] op = "border" -> 4

Count(cv, op) == Cardinality({i \in 1..Len(cv) : cv[i].op = op})

\* a finished card: template first, border last, the text layers once each,
\* every layer drawn on top of the layers of the earlier stages
Finished(cv) ==
    /\ Len(cv) >= 4
    /\ cv[1].op = "template"
    /\ Last(cv).op = "border"
    /\ \A op \in {"template", "title", "description", "border"} : Count(cv, op) = 1
    /\ \A i \in 1..(Len(cv) - 1) : Rank(cv[i].op) <= Rank(cv[i + 1].op)

\* C1: for every record the stages run in the one order load template, image
\* or fallback, title, description, border, each once and on the canvas of
\* the stage before, so a card that reaches the save (and every saved card)
\* has the border as its last layer.
C1_FixedStageOrder ==
    /\ IsPrefix(trace, StageOrder)
    /\ pc \in {"add_image", "draw_title", "draw_description", "add_border"}
          => /\ Len(trace) < Len(StageOrder)
             /\ pc = StageOrder[Len(trace) + 1]
             /\ canvas # <<>>
             /\ \A i \in 1..Len(canvas) : Rank(canvas[i].op) < Len(trace)
             /\ \A i \in 1..(Len(canvas) - 1) :
                   Rank(canvas[i].op) <= Rank(canvas[i + 1].op)
    /\ pc = "save" => trace = StageOrder /\ Finished(canvas)
    /\ \A k \in DOMAIN files : Finished(files[k])

C1_Witness ==
    /\ pc = "save"
    /\ trace = StageOrder
    /\ Len(canvas) = 6

\* C2: an exception in the loop body of record i skips record i alone: the
\* loop reaches the end of the batch, and then the files written are exactly
\* the records whose body raised nothing, each a finished card; every
\* skipped record is logged.
C2_Isolation ==
    pc = "done" =>
        /\ index = nrows
        /\ DOMAIN files = (1..nrows) \ raised
        /\ \A k \in raised : <<k, "error">> \in log
        /\ \A k \in DOMAIN files : Finished(files[k]) /\ <<k, "generated">> \in log

C2_PerRecordFailure == <>(pc = "done") /\ []C2_Isolation

C2_Witness ==
    /\ pc = "done"
    /\ \E k \in raised : \E j \in DOMAIN files : k < j

\* C8: whenever a path is supplied and the image cannot be loaded (missing,
\* unreadable or corrupt), the image stage draws the fallback panel (type
\* colour fill and type letter), logs the failure, and hands the canvas on to
\* the title stage.
C8_LoadFailureFallsBack ==
    (pc = "draw_title" /\ card_data.image \in {"missing", "unreadable", "corrupt"})
        => /\ canvas = create_fallback_image(<<Layer("template", <<>>, "")>>,
                                             card_data.type)
           /\ \E kind \in {"image_not_found", "image_error"} :
                 <<index + 1, kind>> \in log

\* C9: for a record whose type code is no key of the type-colour map, the
\* fallback fill and the border both have the colour of the "?" entry.
C9_UnknownTypeUsesFallbackColor ==
    ("?" \in DOMAIN type_colors /\ card_data.type \notin DOMAIN type_colors)
        => \A i \in 1..Len(canvas) :
              canvas[i].op \in {"fallback_fill", "border"}
                 => canvas[i].color = type_colors["?"]

\* the candidate sizes of the title: maxSize, maxSize - 2, ... not below 12
TitleCandidates ==
    {s \in TitleMinFontSize..title_max_font_size :
        (title_max_font_size - s) % 2 = 0}

TitleCandidateFits(s) ==
    /\ title_bbox[s][1] <= title_area[3] - title_area[1]
    /\ title_bbox[s][2] <= title_area[4] - title_area[2]

\* C3: the title is drawn at the largest candidate size whose bounding box
\* fits the title rect in width and height, and at the floor 12 when no
\* candidate fits; the search always yields a size.
C3_TitleLargestFit ==
    title_drawn # <<>> =>
        LET fitting == {s \in TitleCandidates : TitleCandidateFits(s)}
        IN  /\ fitting # {} =>
                 /\ title_drawn[1].size \in fitting
                 /\ \A s \in fitting : s <= title_drawn[1].size
            /\ fitting = {} => title_drawn[1].size = TitleMinFontSize
            /\ TitleCandidateFits(title_drawn[1].size)
                  \/ title_drawn[1].size = TitleMinFontSize

\* a title drawn below the maximum size because the larger candidates do not fit
C3_Witness ==
    /\ title_drawn # <<>>
    /\ title_drawn[1].size > TitleMinFontSize
    /\ title_drawn[1].size < title_max_font_size
    /\ title_bbox[title_drawn[1].size][1] = title_area[3] - title_area[1]

\* no candidate fits: the floor is used although it does not fit
C3_WitnessFloor ==
    /\ title_drawn # <<>>
    /\ title_drawn[1].size = TitleMinFontSize
    /\ ~TitleCandidateFits(TitleMinFontSize)
    /\ title_max_font_size > TitleMinFontSize

HasSpace(str) == \E i \in 1..Len(str) : str[i] = " "

\* C4: every line returned is at most max_width wide, except a line that is
\* one single word wider than max_width; and a word wider than max_width is
\* a line by itself, unsplit.
C4_WrapLineWidth ==
    wrap_done =>
        /\ \A k \in 1..Len(wrap_lines) :
              \/ TextWidth(wrap_lines[k], wrap_font) <= wrap_max_width
              \/ /\ ~HasSpace(wrap_lines[k])
                 /\ \E j \in 1..Len(Split(wrap_text)) :
                       Split(wrap_text)[j] = wrap_lines[k]
        /\ \A j \in 1..Len(Split(wrap_text)) :
              TextWidth(Split(wrap_text)[j], wrap_font) > wrap_max_width
                 => \E k \in 1..Len(wrap_lines) : wrap_lines[k] = Split(wrap_text)[j]

\* a wrap with a line of two words, and a line of one word too wide
C4_Witness ==
    /\ wrap_done
    /\ \E k \in 1..Len(wrap_lines) : HasSpace(wrap_lines[k])
    /\ \E k \in 1..Len(wrap_lines) :
          TextWidth(wrap_lines[k], wrap_font) > wrap_max_width

\* the candidate sizes of the description: maxSize, maxSize - 2, ... not below 8
DescCandidates ==
    {s \in DescMinFontSize..description_max_font_size :
        (description_max_font_size - s) % 2 = 0}

DescCandidateFits(s) ==
    Len(wrap_text_to_fit(desc_text, desc_area[3] - desc_area[1], s)) * (s + 4)
        <= desc_area[4] - desc_area[2]

\* C5: the description is drawn at the first (largest) candidate size whose
\* wrapped text is not taller than the rect, and, when no candidate fits, it
\* is wrapped and drawn at the floor size 8: every line drawn is a line of
\* the wrapping at that size, drawn in that size.
C5_DescriptionFloorWhenNoFit ==
    desc_result # <<>> =>
        LET fitting == {s \in DescCandidates : DescCandidateFits(s)}
            size == IF fitting = {} THEN DescMinFontSize
                    ELSE CHOOSE s \in fitting : \A t \in fitting : t <= s
            wrapped == wrap_text_to_fit(desc_text, desc_area[3] - desc_area[1], size)
            drawn == desc_result[1].drawn
        IN  /\ Len(drawn) <= Len(wrapped)
            /\ \A k \in 1..Len(drawn) :
                  drawn[k].font = size /\ drawn[k].text = wrapped[k]

\* C6: the k-th drawn line (from 0) is the k-th wrapped line, drawn at
\* x1, y1 + k * (fontSize + 4); its slot ends at or above y2; the lines drawn
\* are the longest prefix of the wrapped lines that does so, and the
\* function returns for every input.
C6_DrawnLinesInsideRect ==
    desc_result # <<>> =>
        LET r == desc_result[1]
            lineHeight == r.best_font + 4
            n == Len(r.drawn)
        IN  /\ n <= Len(r.lines)
            /\ \A k \in 1..n :
                  /\ r.drawn[k].text = r.lines[k]
                  /\ r.drawn[k].x = desc_area[1]
                  /\ r.drawn[k].y = desc_area[2] + (k - 1) * lineHeight
                  /\ r.drawn[k].y + lineHeight <= desc_area[4]
            /\ n < Len(r.lines)
                  => desc_area[2] + n * lineHeight + lineHeight > desc_area[4]

\* a description of which one line is drawn and the next is left out
C6_Witness ==
    /\ desc_result # <<>>
    /\ Len(desc_result[1].drawn) >= 1
    /\ Len(desc_result[1].drawn) < Len(desc_result[1].lines)

\* the cut-out of the mask: the calls after the full rectangle
CutOut == SubSeq(border_mask, 2, Len(border_mask))

Ellipses == {i \in 1..Len(CutOut) : CutOut[i].shape = "ellipse"}

\* the radius the cut-out is drawn with: half the diameter of its corner
\* discs, 0 for a plain rectangle
EffectiveRadius ==
    IF Ellipses = {} THEN 0
    ELSE LET e == CutOut[CHOOSE i \in Ellipses : TRUE]
         IN  (e.box[3] - e.box[1]) \div 2

\* C10: for every border width >= 2, requested radius and canvas size, the
\* radius the rounded cut-out is drawn with is at least 0, at most
\* borderWidth - 2, and at most half the shorter side of the inner rect (the
\* canvas inset by borderWidth on each edge); all corner discs have that
\* radius.
C10_RadiusClamp ==
    (border_mask # <<>> /\ border_width >= 2 /\ CutOut # <<>>) =>
        LET innerWidth == (card_size[1] - 1 - border_width) - border_width
            innerHeight == (card_size[2] - 1 - border_width) - border_width
        IN  /\ 0 <= EffectiveRadius
            /\ EffectiveRadius <= border_width - 2
            /\ 2 * EffectiveRadius <= Min(innerWidth, innerHeight)
            /\ \A i \in Ellipses :
                  /\ CutOut[i].box[3] - CutOut[i].box[1] = 2 * EffectiveRadius
                  /\ CutOut[i].box[4] - CutOut[i].box[2] = 2 * EffectiveRadius

\* a rounded cut-out whose radius the inner rect, not the border width, limits
C10_Witness ==
    /\ border_mask # <<>>
    /\ border_width >= 2
    /\ EffectiveRadius >= 1
    /\ EffectiveRadius < border_width - 2
    /\ EffectiveRadius < border_corner_radius

\* C7: for every target rect and source image of positive width and height,
\* the raster pasted at the rect's top-left corner is exactly targetWidth by
\* targetHeight and every pixel of it comes from the resized image, so the
\* target rect is covered with no unfilled pixel.
C7_FillCropExactSize ==
    img_done =>
        LET target_width == image_area[3] - image_area[1]
            target_height == image_area[4] - image_area[2]
        IN  /\ Len(img_pasted) = 1
            /\ img_pasted[1].at = <<image_area[1], image_area[2]>>
            /\ img_pasted[1].size = <<target_width, target_height>>
            /\ img_pasted[1].filled = <<0, 0, target_width, target_height>>


(***************************************************************************)
(* Properties of the border at the level of pixels.                        *)
(***************************************************************************)
Columns == 0..(card_size[1] - 1)

Rows == 0..(card_size[2] - 1)

\* the canvas inset by border_width on every edge has no interior
InsetDegenerate ==
    \/ card_size[1] - 1 - border_width <= border_width
    \/ card_size[2] - 1 - border_width <= border_width

\* C11: if border_width <= 0, or the inner rect obtained by insetting the
\* canvas by border_width on every edge is degenerate, add_colored_border
\* draws no border: every pixel of the image returned is the pixel of the
\* input card.
C11_BorderPassThrough ==
    (border_mask # <<>> /\ (border_width <= 0 \/ InsetDegenerate)) =>
        \A x \in Columns, y \in Rows : BorderedPixel(x, y) = "card"

\* the distance of a pixel to the nearest edge of the canvas
EdgeDistance(x, y) ==
    Min(Min(x, card_size[1] - 1 - x), Min(y, card_size[2] - 1 - y))

\* the pixels the cut-out of the mask covers
InCutOut(x, y) == \E i \in 1..Len(CutOut) : Covers(CutOut[i], x, y)

\* the inset rect [border_width, size - 1 - border_width] on both axes
InInset(x, y) ==
    /\ border_width <= x /\ x <= card_size[1] - 1 - border_width
    /\ border_width <= y /\ y <= card_size[2] - 1 - border_width

\* C17: whenever border_width >= 1 and the inset rect is non-degenerate,
\* every pixel nearer than border_width to the nearest canvas edge (the full
\* square outer ring) has the border colour, every pixel the cut-out covers
\* keeps the colour of the input card, and the cut-out lies inside the inset
\* rect: rounding the inner corners only adds border pixels.
C17_BorderFrameShape ==
    (border_mask # <<>> /\ border_width >= 1 /\ ~InsetDegenerate) =>
        \A x \in Columns, y \in Rows :
            /\ EdgeDistance(x, y) < border_width => BorderedPixel(x, y) = "border"
            /\ InCutOut(x, y) => BorderedPixel(x, y) = "card"
            /\ InCutOut(x, y) => InInset(x, y)
            /\ BorderedPixel(x, y) = "card" => InCutOut(x, y)

\* a frame with rounded inner corners: a pixel of the inset rect is border
C17_Witness ==
    /\ border_mask # <<>>
    /\ border_width >= 3
    /\ ~InsetDegenerate
    /\ Ellipses # {}
    /\ \E x \in Columns, y \in Rows :
          InInset(x, y) /\ BorderedPixel(x, y) = "border"
    /\ \E x \in Columns, y \in Rows : BorderedPixel(x, y) = "card"


(***************************************************************************)
(* Properties of the wrapping as a rearrangement of the words.             *)
(***************************************************************************)
\* str.split(" "): the pieces between single spaces, empty pieces included
RECURSIVE SplitOnSpace(_, _)
SplitOnSpace(str, piece) ==
    IF str = <<>> THEN <<piece>>
    ELSE IF Head(str) = " "
         THEN <<piece>> \o SplitOnSpace(Tail(str), <<>>)
         ELSE SplitOnSpace(Tail(str), Append(piece, Head(str)))

\* the pieces of all lines, in line order
RECURSIVE LineWords(_)
LineWords(lines) ==
    IF lines = <<>> THEN <<>>
    ELSE SplitOnSpace(Head(lines), <<>>) \o LineWords(Tail(lines))

\* C16: wrapping loses and reorders nothing: the lines, each split on single
\* spaces and concatenated in line order, are exactly the whitespace-separated
\* words of the text, in order; no line is empty; an empty or whitespace-only
\* text yields no line; and the wrapping is greedy: for every line but the
\* last, the line with a space and the first word of the next line appended
\* is wider than max_width.
C16_WrapKeepsWords ==
    wrap_done =>
        /\ LineWords(wrap_lines) = Split(wrap_text)
        /\ \A i \in 1..Len(wrap_lines) : wrap_lines[i] # <<>>
        /\ (\A i \in 1..Len(wrap_text) : wrap_text[i] = " ") => wrap_lines = <<>>
        /\ \A i \in 1..(Len(wrap_lines) - 1) :
              LET next_word == SplitOnSpace(wrap_lines[i + 1], <<>>)[1]
              IN  TextWidth(wrap_lines[i] \o <<" ">> \o next_word, wrap_font)
                      > wrap_max_width

\* a text with surplus spaces wrapped into fewer lines than it has words, the
\* first line exactly max_width wide
C16_Witness ==
    /\ wrap_done
    /\ Len(wrap_lines) >= 2
    /\ Len(Split(wrap_text)) > Len(wrap_lines)
    /\ Cardinality({i \in 1..Len(wrap_text) : wrap_text[i] = " "})
          > Len(Split(wrap_text)) - 1
    /\ TextWidth(wrap_lines[1], wrap_font) = wrap_max_width


(***************************************************************************)
(* Properties of the colours of one card.                                  *)
(***************************************************************************)
\* the cards composed so far: the one about to be saved and the saved ones
ComposedCards ==
    (IF pc = "save" THEN {canvas} ELSE {}) \cup {files[k] : k \in DOMAIN files}

\* C15: on every card rendered through the fallback image path, the colour
\* filling the fallback panel and the colour of the border are the same
\* resolved type colour, for every type code: configured, lower-case variant
\* of a configured code, or unknown.
C15_PanelAndBorderSameColour ==
    \A cv \in ComposedCards :
        \A i \in 1..Len(cv) :
            cv[i].op = "fallback_fill" => cv[i].color = Last(cv).color


(***************************************************************************)
(* Properties of the output files.                                         *)
(***************************************************************************)
\* the characters a sanitized title must not contain
ForbiddenChars == {"?", ":", "/", "\\", "*", "<", ">", "|", "\"", " "}

\* C13: for every title, the sanitized title contains none of the characters
\* ? : / \ * < > | " or space, every other character of the title passes
\* through unchanged in its position (so the length is kept), and sanitizing
\* the sanitized title again changes nothing.
C13_SanitizerIdempotent ==
    san_name # <<>> =>
        LET out == san_name[1]
        IN  /\ Len(out) = Len(san_title)
            /\ \A i \in 1..Len(out) :
                  /\ out[i] \notin ForbiddenChars
                  /\ san_title[i] \notin ForbiddenChars => out[i] = san_title[i]
            /\ sanitize(out) = out

\* a title in which a forbidden character occurs twice in a row
C13_Witness ==
    /\ san_name # <<>>
    /\ Len(san_title) >= 2
    /\ \E i \in 1..(Len(san_title) - 1) :
          san_title[i] \in ForbiddenChars /\ san_title[i + 1] = san_title[i]
    /\ san_name[1] # san_title

\* the name the record with 1-based number k is to be saved under
ExpectedName(k) ==
    LET t == RowTitle(title_column, k - 1)
        clean == [i \in 1..Len(t) |-> IF t[i] \in ForbiddenChars THEN "_" ELSE t[i]]
    IN  <<"c", "a", "r", "d", "_">> \o Str(k) \o <<"_">> \o clean
            \o <<".", "p", "n", "g">>

HeroColumn == << <<"H", "e", "r", "o">>, <<"A", "/", "B", "?">> >>

HeroFiles ==
    { <<"c", "a", "r", "d", "_", "1", "_", "H", "e", "r", "o", ".", "p", "n", "g">>,
      <<"c", "a", "r", "d", "_", "2", "_", "A", "_", "B", "_", ".", "p", "n", "g">> }

\* C12: the record at 0-based position i with title t is saved under the name
\* card_{i+1}_{sanitize(t)}.png: every record rendered and saved has exactly
\* one file, the names of distinct records are distinct, and the source with
\* the two records "Hero" and "A/B?" yields exactly card_1_Hero.png and
\* card_2_A_B_.png.
C12_OutputNaming ==
    /\ \A k \in DOMAIN files :
          /\ ExpectedName(k) \in DOMAIN output_dir
          /\ output_dir[ExpectedName(k)] = k
    /\ \A name \in DOMAIN output_dir :
          /\ output_dir[name] \in DOMAIN files
          /\ name = ExpectedName(output_dir[name])
    /\ Cardinality(DOMAIN output_dir) = Cardinality(DOMAIN files)
    /\ (pc = "done" /\ nrows = 2 /\ raised = {} /\ title_column = HeroColumn)
          => DOMAIN output_dir = HeroFiles

\* the batch of "Hero" and "A/B?" has run to its end
C12_Witness ==
    /\ pc = "done"
    /\ nrows = 2
    /\ title_column = HeroColumn
    /\ DOMAIN output_dir = HeroFiles

(***************************************************************************)
(* Independence of the records.                                            *)
(***************************************************************************)
\* the layers the image stage draws for a record
ImageLayers(record) ==
    IF record.image \in {"", "missing"}
    THEN <<Layer("fallback_fill", FallbackColor(record.type), ""),
           Layer("fallback_letter", White, record.type)>>
    ELSE IF record.image = "ok" THEN <<Layer("image", <<>>, "")>>
    ELSE <<>>

\* the canvas of a record after the first n stages, from the record's own
\* fields, the template and the configuration
RenderOf(record, n) ==
    (IF n >= 1 THEN <<Layer("template", <<>>, "")>> ELSE <<>>)
      \o (IF n >= 2 THEN ImageLayers(record) ELSE <<>>)
      \o (IF n >= 3 THEN <<Layer("title", <<>>, record.title)>> ELSE <<>>)
      \o (IF n >= 4 THEN <<Layer("description", <<>>, "")>> ELSE <<>>)
      \o (IF n >= 5 THEN <<Layer("border", BorderColor(record.type), "")>> ELSE <<>>)

SameCanvas(a, b) ==
    /\ Len(a) = Len(b)
    /\ \A i \in 1..Len(a) : a[i].op = b[i].op /\ a[i] = b[i]

\* a step leaves the configuration and the files already saved as they are,
\* and a file it saves is the canvas of the record being rendered
KeepsOthers ==
    /\ type_colors' = type_colors
    /\ title_column' = title_column
    /\ \A k \in DOMAIN files : k \in DOMAIN files' /\ files'[k] = files[k]
    /\ \A k \in DOMAIN files' \ DOMAIN files : k = index + 1 /\ files'[k] = canvas

\* C14: the raster of a record depends only on the record's own fields, the
\* template and the configuration: at every stage the canvas is the one those
\* determine, whatever the other records of the batch are, in whatever order
\* and whichever of them failed; and rendering changes neither the
\* configuration nor a card saved before.
C14_RecordIndependence ==
    /\ [](SameCanvas(canvas, RenderOf(card_data, Len(trace))))
    /\ [][KeepsOthers]_vars

\* the same record at two positions of a batch: the two cards are identical
C14_Witness ==
    /\ pc = "done"
    /\ nrows = 2
    /\ DOMAIN files = {1, 2}
    /\ Len(title_column) = 2
    /\ title_column[1] = title_column[2]
    /\ files[1] = files[2]

====
